---------------------------- MODULE Spec2Model ----------------------------
(***************************************************************************)
(* Model of the persona state reducer of burnout-twin                      *)
(* (src/persona_manager.py), of the remote call wrapper it awaits          *)
(* (src/minds_ai.py), of the callers' use of it and the orchestrator's     *)
(* loop (src/orchestrator.py), and of the local burnout heuristic          *)
(* (src/burnout_scanner.py).                                               *)
(*                                                                         *)
(* Three specifications share the variables:                               *)
(*   Spec      concurrent callers of the PersonaManager                    *)
(*   TickSpec  the orchestrator's loop driving one PersonaManager          *)
(*   ScanSpec  calculate_burnout_score_locally on bounded commit lists     *)
(*   ExtractSpec  _find_json_substring and the parse on bounded texts      *)
(*                                                                         *)
(* Python values are modelled as tagged records ("JSON values"):           *)
(*   [kind |-> "dict", items |-> <<<<key, value>>, ...>>]  insertion order *)
(*   [kind |-> "list", elems |-> <<value, ...>>]                           *)
(*   [kind |-> "int",  int |-> n]     [kind |-> "str", str |-> s]          *)
(*   [kind |-> "bool", bool |-> b]    [kind |-> "null"]   (Python None)    *)
(* A text returned by the remote model is a sequence of lexemes            *)
(*   [t |-> "open"|"close"|"key"|"int"|"str"|"bool"|"null"|"word"|"ws",    *)
(*    v |-> ...]                                                           *)
(* (commas and colons are folded into the lexemes).                        *)
(***************************************************************************)
EXTENDS Integers, Sequences, FiniteSets, TLC

\* ------------------------------------------------------------------ bounds
\* number of concurrent callers (asyncio tasks) of the PersonaManager
NumTasks == 2
MaxTokens == 5
\* number of calls (update_from_events, push_persona) started in one run
MaxCalls == 2
\* number of commit records given to the scanner
MaxCommits == 5
\* number of loop iterations the orchestrator starts
MaxTicks == 2

Tasks == 1..NumTasks

\* ------------------------------------------------------- Python / JSON values
PyNone == [kind |-> "null"]
PyInt(n) == [kind |-> "int", int |-> n]
PyStr(s) == [kind |-> "str", str |-> s]
PyBool(b) == [kind |-> "bool", bool |-> b]
PyList(es) == [kind |-> "list", elems |-> es]
PyDict(its) == [kind |-> "dict", items |-> its]
EmptyDict == PyDict(<<>>)

\* dict[k] = v: replaces the value of an existing key in place, else appends
RECURSIVE DictPut(_, _, _)
DictPut(its, k, v) ==
    IF its = <<>> THEN <<<<k, v>>>>
    ELSE IF Head(its)[1] = k THEN <<<<k, v>>>> \o Tail(its)
    ELSE <<Head(its)>> \o DictPut(Tail(its), k, v)

\* dict.get(k): the value of key k, None when the key is absent
RECURSIVE ItemsGet(_, _)
ItemsGet(its, k) ==
    IF its = <<>> THEN PyNone
    ELSE IF Head(its)[1] = k THEN Head(its)[2]
    ELSE ItemsGet(Tail(its), k)

DictGet(d, k) == ItemsGet(d.items, k)

DictHas(d, k) == \E i \in 1..Len(d.items) : d.items[i][1] = k

\* ------------------------------------------------------------------ lexemes
Tok(t, v) == [t |-> t, v |-> v]
LBrace == Tok("open", "{")
RBrace == Tok("close", "}")
LBrack == Tok("open", "[")
RBrack == Tok("close", "]")
Key(k) == Tok("key", k)
IntTok(n) == Tok("int", n)
StrTok(s) == Tok("str", s)
BoolTok(b) == Tok("bool", b)
NullTok == Tok("null", "null")
Word(w) == Tok("word", w)
Ws == Tok("ws", " ")
\* a double quote that opens or closes a string written out lexeme by lexeme
\* (a string whose characters are brackets, words or blanks)
Quote == Tok("quote", "\"")

IsWs(tok) == tok.t = "ws"
NotWs(tok) == ~IsWs(tok)

\* str.strip(): drop the leading and trailing whitespace
RECURSIVE LStrip(_)
LStrip(s) == IF s # <<>> /\ IsWs(Head(s)) THEN LStrip(Tail(s)) ELSE s

RECURSIVE RStrip(_)
RStrip(s) ==
    IF s # <<>> /\ IsWs(s[Len(s)]) THEN RStrip(SubSeq(s, 1, Len(s) - 1)) ELSE s

Strip(s) == RStrip(LStrip(s))

\* ---------------------------------------------------------------- json.loads
\* Recursive descent over the lexemes; whitespace between lexemes is
\* insignificant.  A result is [ok |-> FALSE] (json.JSONDecodeError) or
\* [ok |-> TRUE, val |-> value, next |-> index after the value].
ParseFail == [ok |-> FALSE]
ParseOk(v, n) == [ok |-> TRUE, val |-> v, next |-> n]

\* a string written out lexeme by lexeme, from the lexeme after its opening
\* quote: its characters up to the closing quote
RECURSIVE ParseString(_, _, _)
ParseString(s, i, acc) ==
    IF i > Len(s) THEN ParseFail
    ELSE IF s[i].t = "quote" THEN ParseOk(PyStr(acc), i + 1)
    ELSE ParseString(s, i + 1, acc \o s[i].v)

RECURSIVE ParseValue(_, _), ParseMembers(_, _, _), ParseElems(_, _, _)
ParseValue(s, i) ==
    IF i > Len(s) THEN ParseFail
    ELSE LET tok == s[i] IN
         CASE tok.t = "int" -> ParseOk(PyInt(tok.v), i + 1)
           [] tok.t = "quote" -> ParseString(s, i + 1, "")
           [] tok.t = "str" -> ParseOk(PyStr(tok.v), i + 1)
           [] tok.t = "bool" -> ParseOk(PyBool(tok.v), i + 1)
           [] tok.t = "null" -> ParseOk(PyNone, i + 1)
           [] tok.t = "open" ->
                IF tok.v = "{" THEN ParseMembers(s, i + 1, <<>>)
                ELSE ParseElems(s, i + 1, <<>>)
           [] OTHER -> ParseFail

ParseMembers(s, i, acc) ==
    IF i > Len(s) THEN ParseFail
    ELSE LET tok == s[i] IN
         IF tok.t = "close"
         THEN IF tok.v = "}" THEN ParseOk(PyDict(acc), i + 1) ELSE ParseFail
         ELSE IF tok.t = "key"
         THEN LET r == ParseValue(s, i + 1) IN
              IF r.ok THEN ParseMembers(s, r.next, DictPut(acc, tok.v, r.val))
              ELSE ParseFail
         ELSE ParseFail

ParseElems(s, i, acc) ==
    IF i > Len(s) THEN ParseFail
    ELSE LET tok == s[i] IN
         IF tok.t = "close"
         THEN IF tok.v = "]" THEN ParseOk(PyList(acc), i + 1) ELSE ParseFail
         ELSE LET r == ParseValue(s, i) IN
              IF r.ok THEN ParseElems(s, r.next, Append(acc, r.val))
              ELSE ParseFail

\* the lexemes that matter to json.loads: whitespace outside strings dropped
RECURSIVE Significant(_, _)
Significant(s, inString) ==
    IF s = <<>> THEN <<>>
    ELSE IF Head(s).t = "quote"
         THEN <<Head(s)>> \o Significant(Tail(s), ~inString)
    ELSE IF IsWs(Head(s)) /\ ~inString THEN Significant(Tail(s), inString)
    ELSE <<Head(s)>> \o Significant(Tail(s), inString)

\* json.loads(s): one value and nothing after it, else JSONDecodeError
JsonLoads(s) ==
    LET body == Significant(s, FALSE)
        r == ParseValue(body, 1)
    IN IF r.ok /\ r.next = Len(body) + 1 THEN [ok |-> TRUE, val |-> r.val]
       ELSE ParseFail


\* ------------------------------------------------ _find_json_substring(raw)
NoSub == [found |-> FALSE]

\* index of the first "{" or "[" at or after i, 0 when there is none
\* the same looking for `{` only
RECURSIVE FirstOpenBrace(_, _)
FirstOpenBrace(s, i) ==
    IF i > Len(s) THEN 0
    ELSE IF s[i] = LBrace THEN i
    ELSE FirstOpenBrace(s, i + 1)

RECURSIVE FirstOpen(_, _)
FirstOpen(s, i) ==
    IF i > Len(s) THEN 0
    ELSE IF s[i].t = "open" THEN i
    ELSE FirstOpen(s, i + 1)

\* the scan from `start`: push on an opening bracket, pop on a closing one
\* (of either shape), return s[start..j] when the stack empties
RECURSIVE ScanBalanced(_, _, _, _)
ScanBalanced(s, start, j, stack) ==
    IF j > Len(s) THEN NoSub
    ELSE IF s[j].t = "open"
         THEN ScanBalanced(s, start, j + 1, Append(stack, s[j].v))
    ELSE IF s[j].t = "close"
         THEN IF stack = <<>> THEN NoSub
              ELSE IF Len(stack) = 1
                   THEN [found |-> TRUE, sub |-> SubSeq(s, start, j)]
                   ELSE ScanBalanced(s, start, j + 1,
                                     SubSeq(stack, 1, Len(stack) - 1))
    ELSE ScanBalanced(s, start, j + 1, stack)

FindJsonSubstring(raw) ==
    LET s == Strip(raw)
        start == FirstOpen(s, 1)
    IN IF s = <<>> THEN NoSub
       ELSE IF start = 0 THEN NoSub
       ELSE ScanBalanced(s, start, start, <<>>)

\* the same without the `parsed = {}` default: None is left when nothing parses
ParseRawNoDefault(raw) ==
    LET sub == FindJsonSubstring(raw)
        fromSub == IF sub.found THEN JsonLoads(sub.sub) ELSE ParseFail
        whole == JsonLoads(raw)
    IN IF fromSub.ok /\ fromSub.val # PyNone THEN fromSub.val
       ELSE IF whole.ok THEN whole.val
       ELSE PyNone

\* parsed = ... : the balanced substring if it is JSON, else the whole text
\* if it is JSON, else {}
ParseRaw(raw) ==
    LET sub == FindJsonSubstring(raw)
        fromSub == IF sub.found THEN JsonLoads(sub.sub) ELSE ParseFail
        whole == JsonLoads(raw)
    IN IF fromSub.ok /\ fromSub.val # PyNone THEN fromSub.val
       ELSE IF whole.ok THEN whole.val
       ELSE EmptyDict

\* ------------------------------------------------------- minds_ai.run_prompt
\* An outcome of the remote call: the text the model returned, no answer
\* within the timeout, or a failure of the transport.
TimeoutSeconds == 30
TimeoutMessage == "Dedalus call timed out after " \o ToString(TimeoutSeconds) \o "s"
FailureMessage == "Connection error."

TextOutcome(text) == [kind |-> "text", text |-> text]
TimeoutOutcome == [kind |-> "timeout"]
FailureOutcome == [kind |-> "failure"]
NoOutcome == [kind |-> "none"]

\* the same without the `except _asyncio.TimeoutError` clause: the bare
\* asyncio.TimeoutError reaches the caller, and its str() is empty
RunPromptTimeoutUncaught(o) ==
    CASE o.kind = "timeout" -> [raised |-> TRUE, msg |-> ""]
      [] o.kind = "failure" -> [raised |-> TRUE, msg |-> FailureMessage]
      [] OTHER -> [raised |-> FALSE, output |-> o.text]

\* what `await minds_ai.run_prompt(...)` gives its caller: a result, or an
\* exception (asyncio.TimeoutError is re-raised as RuntimeError)
RunPrompt(o) ==
    CASE o.kind = "timeout" -> [raised |-> TRUE, msg |-> TimeoutMessage]
      [] o.kind = "failure" -> [raised |-> TRUE, msg |-> FailureMessage]
      [] OTHER -> [raised |-> FALSE, output |-> o.text]

\* the same without `except Exception as e`: the exception reaches the caller
Unhandled(msg) == [kind |-> "raised", str |-> msg]

\* return {"error": str(e)}
ErrorMarker(msg) == PyDict(<<<<"error", PyStr(msg)>>>>)

\* --------------------------------------------- the merge of a parsed proposal
Channels == {"energy", "resilience", "social"}

\* max(0, x): the upper limit forgotten
ClampNoUpper(x) == IF x < 0 THEN 0 ELSE x

\* max(0, min(100, x))
Clamp(x) == IF x < 0 THEN 0 ELSE IF x > 100 THEN 100 ELSE x

\* type(v).__name__
TypeName(v) ==
    CASE v.kind = "null" -> "NoneType"
      [] v.kind = "bool" -> "bool"
      [] v.kind = "int" -> "int"
      [] v.kind = "str" -> "str"
      [] v.kind = "list" -> "list"
      [] v.kind = "dict" -> "dict"

\* str(e) of the exceptions the merge can raise
NoGetMessage(v) == "'" \o TypeName(v) \o "' object has no attribute 'get'"
NotIterableMessage(v) == "'" \o TypeName(v) \o "' object is not iterable"
BadIntMessage(v) ==
    IF v.kind = "str"
    THEN "invalid literal for int() with base 10: '" \o v.str \o "'"
    ELSE "int() argument must be a string, a bytes-like object or a real number, not '"
         \o TypeName(v) \o "'"

\* int(v): [ok |-> TRUE, val |-> n], or [ok |-> FALSE] for ValueError/TypeError
ToInt(v) ==
    CASE v.kind = "int" -> [ok |-> TRUE, val |-> v.int]
      [] v.kind = "bool" -> [ok |-> TRUE, val |-> IF v.bool THEN 1 ELSE 0]
      [] v.kind = "str" ->
           IF \E n \in -999..999 : ToString(n) = v.str
           THEN [ok |-> TRUE,
                 val |-> CHOOSE n \in -999..999 : ToString(n) = v.str]
           ELSE [ok |-> FALSE]
      [] OTHER -> [ok |-> FALSE]

\* bool(v), as in `parsed.get("memory_additions") or []`
Truthy(v) ==
    CASE v.kind = "null" -> FALSE
      [] v.kind = "bool" -> v.bool
      [] v.kind = "int" -> v.int # 0
      [] v.kind = "str" -> v.str # ""
      [] v.kind = "list" -> v.elems # <<>>
      [] v.kind = "dict" -> v.items # <<>>

\* str(m); the repr of a nested list or dict is abbreviated
StrOf(v) ==
    CASE v.kind = "str" -> v.str
      [] v.kind = "int" -> ToString(v.int)
      [] v.kind = "bool" -> IF v.bool THEN "True" ELSE "False"
      [] v.kind = "null" -> "None"
      [] v.kind = "list" -> "[...]"
      [] v.kind = "dict" -> "{...}"

\* iter(v): the elements of a list, the keys of a dict, the characters of a
\* string (the strings of the remote texts are single characters here);
\* an int or a bool is not iterable (TypeError)
Iterate(v) ==
    CASE v.kind = "list" -> [ok |-> TRUE, elems |-> v.elems]
      [] v.kind = "dict" ->
           [ok |-> TRUE,
            elems |-> [i \in 1..Len(v.items) |-> PyStr(v.items[i][1])]]
      [] v.kind = "str" ->
           [ok |-> TRUE, elems |-> IF v.str = "" THEN <<>> ELSE <<v>>]
      [] OTHER -> [ok |-> FALSE]

\* the same without `if k in vitals`: vitals[k] = ... creates the key
RECURSIVE NewStatsLoopAnyKey(_, _)
NewStatsLoopAnyKey(items, acc) ==
    IF items = <<>> \/ acc.raised THEN acc
    ELSE LET k == Head(items)[1]
             n == ToInt(Head(items)[2])
         IN IF ~n.ok
            THEN [acc EXCEPT !.raised = TRUE,
                             !.msg = BadIntMessage(Head(items)[2])]
            ELSE NewStatsLoopAnyKey(Tail(items),
                   [acc EXCEPT !.vitals = (k :> Clamp(n.val)) @@ acc.vitals,
                               !.changed = TRUE])

\* for k, v in parsed["new_stats"].items(): ... vitals[k] = clamp(int(v))
\* acc = [vitals, changed, raised]; int(v) is not guarded: it raises out of
\* the loop, and what was assigned before stays assigned
RECURSIVE NewStatsLoop(_, _)
NewStatsLoop(items, acc) ==
    IF items = <<>> \/ acc.raised THEN acc
    ELSE LET k == Head(items)[1]
             n == ToInt(Head(items)[2])
         IN IF k \notin DOMAIN acc.vitals THEN NewStatsLoop(Tail(items), acc)
            ELSE IF ~n.ok
                 THEN [acc EXCEPT !.raised = TRUE,
                                  !.msg = BadIntMessage(Head(items)[2])]
                 ELSE NewStatsLoop(Tail(items),
                        [acc EXCEPT !.vitals[k] = Clamp(n.val),
                                    !.changed = TRUE])

\* for k, delta in parsed["adjustments"].items(): ... try/except: continue
RECURSIVE AdjustmentsLoop(_, _)
AdjustmentsLoop(items, acc) ==
    IF items = <<>> THEN acc
    ELSE LET k == Head(items)[1]
             d == ToInt(Head(items)[2])
         IN IF k \notin DOMAIN acc.vitals \/ ~d.ok
            THEN AdjustmentsLoop(Tail(items), acc)
            ELSE AdjustmentsLoop(Tail(items),
                   [acc EXCEPT !.vitals[k] = Clamp(acc.vitals[k] + d.val),
                               !.changed = TRUE])

\* the same with append(str(m)) in place of insert(0, str(m))
RECURSIVE MemoryLoopAppend(_, _)
MemoryLoopAppend(elems, acc) ==
    IF elems = <<>> THEN acc
    ELSE MemoryLoopAppend(Tail(elems),
           [acc EXCEPT !.memory = Append(acc.memory, StrOf(Head(elems))),
                       !.changed = TRUE])

\* for m in (...): self._state["memory"].insert(0, str(m))
RECURSIVE MemoryLoop(_, _)
MemoryLoop(elems, acc) ==
    IF elems = <<>> THEN acc
    ELSE MemoryLoop(Tail(elems),
           [acc EXCEPT !.memory = <<StrOf(Head(elems))>> \o acc.memory,
                       !.changed = TRUE])

\* the statements under `async with self._lock` of update_from_events, on the
\* persona data `base` = [vitals, memory, version]:
\* [vitals, memory, version, changed, raised, msg]
ApplyNewStats(parsed, acc) ==
    LET ns == DictGet(parsed, "new_stats")
    IN IF ns.kind = "dict" THEN NewStatsLoop(ns.items, acc) ELSE acc

ApplyAdjustments(parsed, acc) ==
    LET adj == DictGet(parsed, "adjustments")
    IN IF acc.raised \/ adj.kind # "dict" THEN acc
       ELSE AdjustmentsLoop(adj.items, acc)

ApplyMemoryAdditions(parsed, acc) ==
    LET ma == DictGet(parsed, "memory_additions")
        it == Iterate(ma)
    IN IF acc.raised \/ ~Truthy(ma) THEN acc
       ELSE IF ~it.ok
            THEN [acc EXCEPT !.raised = TRUE,
                             !.msg = NotIterableMessage(ma)]
            ELSE MemoryLoop(it.elems, acc)

\* the same without `if changed:`: every merge increments the version
BumpVersionAlways(acc) ==
    IF ~acc.raised
    THEN [acc EXCEPT !.version = acc.version + 1]
    ELSE acc

BumpVersion(acc) ==
    IF ~acc.raised /\ acc.changed
    THEN [acc EXCEPT !.version = acc.version + 1]
    ELSE acc

Merge(base, parsed) ==
    LET start == [vitals |-> base.vitals, memory |-> base.memory,
                  version |-> base.version, changed |-> FALSE,
                  raised |-> FALSE, msg |-> ""]
    IN IF parsed.kind # "dict"
       THEN [start EXCEPT !.raised = TRUE,
                          !.msg = NoGetMessage(parsed)]
       ELSE BumpVersion(
              ApplyMemoryAdditions(parsed,
                ApplyAdjustments(parsed,
                  ApplyNewStats(parsed, start))))

\* ------------------------------------------------------------ remote answers
\* The texts the judgment model may answer with.
JudgmentTexts == <<
    \* 1: {"new_stats": {"resilience": 40}, "adjustments": {"resilience": -100}}
    <<LBrace, Key("new_stats"), LBrace, Key("resilience"), IntTok(40), RBrace,
      Key("adjustments"), LBrace, Key("resilience"), IntTok(-100), RBrace,
      RBrace>>,
    \* 2: {"new_stats": {"energy": 500}}
    <<LBrace, Key("new_stats"), LBrace, Key("energy"), IntTok(500), RBrace,
      RBrace>>,
    \* 3: {"new_stats": {"energy": -50}, "memory_additions": ["a", "b"]}
    <<LBrace, Key("new_stats"), LBrace, Key("energy"), IntTok(-50), RBrace,
      Key("memory_additions"), LBrack, StrTok("a"), StrTok("b"), RBrack,
      RBrace>>,
    \* 4: {"adjustments": {"energy": 0}}
    <<LBrace, Key("adjustments"), LBrace, Key("energy"), IntTok(0), RBrace,
      RBrace>>,
    \* 5: {}
    <<LBrace, RBrace>>,
    \* 6: I'm not sure, maybe increase energy?
    <<Word("I'm"), Ws, Word("not"), Ws, Word("sure,"), Ws, Word("maybe"), Ws,
      Word("increase"), Ws, Word("energy?")>>,
    \* 7: {"new_stats": {"energy": 50, "resilience": "x"}}
    <<LBrace, Key("new_stats"), LBrace, Key("energy"), IntTok(50),
      Key("resilience"), StrTok("x"), RBrace, RBrace>>,
    \* 8: Sure: {"adjustments": {"social": -30}} done
    <<Word("Sure:"), Ws, LBrace, Key("adjustments"), LBrace, Key("social"),
      IntTok(-30), RBrace, RBrace, Ws, Word("done")>>,
    \* 9: [1]
    <<LBrack, IntTok(1), RBrack>>,
    \* 10: {"new_stats": {"mood": 5}, "adjustments": {"mood": -10}, "push": true}
    <<LBrace, Key("new_stats"), LBrace, Key("mood"), IntTok(5), RBrace,
      Key("adjustments"), LBrace, Key("mood"), IntTok(-10), RBrace,
      Key("push"), BoolTok(TRUE), RBrace>>,
    \* 11: null
    <<NullTok>>,
    \* 12: {"push": false}
    <<LBrace, Key("push"), BoolTok(FALSE), RBrace>>
  >>

JudgmentOutcomes ==
    [i \in 1..(Len(JudgmentTexts) + 2) |->
        IF i <= Len(JudgmentTexts) THEN TextOutcome(JudgmentTexts[i])
        ELSE IF i = Len(JudgmentTexts) + 1 THEN TimeoutOutcome
        ELSE FailureOutcome]

\* The outcomes of the assessment call of push_persona.
AssessmentOutcomes ==
    <<TextOutcome(<<LBrace, Key("assessment"), StrTok("k"), RBrace>>),
      TimeoutOutcome,
      FailureOutcome>>

\* The event batches a caller passes (the events' types).
EventBatches == << <<>>, <<"SLACK">> >>

\* ------------------------------ burnout_scanner.calculate_burnout_score_locally
\* A string of a commit record is a sequence of characters; a field of the
\* record is a string, or absent (c.get gives None).
Absent == [some |-> FALSE]
Text(chars) == [some |-> TRUE, chars |-> chars]

\* c.get(field) or "": the string, "" when the field is absent
OrEmpty(field) == IF field.some THEN field.chars ELSE <<>>

UpperCase == <<"A", "B", "C", "D", "E", "F", "G", "H", "I", "J", "K", "L", "M",
               "N", "O", "P", "Q", "R", "S", "T", "U", "V", "W", "X", "Y", "Z">>
LowerCase == <<"a", "b", "c", "d", "e", "f", "g", "h", "i", "j", "k", "l", "m",
               "n", "o", "p", "q", "r", "s", "t", "u", "v", "w", "x", "y", "z">>

\* str.lower()
LowerChar(ch) ==
    IF \E n \in 1..Len(UpperCase) : UpperCase[n] = ch
    THEN LowerCase[CHOOSE n \in 1..Len(UpperCase) : UpperCase[n] = ch]
    ELSE ch

Lower(chars) == [n \in 1..Len(chars) |-> LowerChar(chars[n])]

\* msg.strip()
IsSpace(ch) == ch \in {" ", "\t", "\n", "\r"}

RECURSIVE LTrim(_)
LTrim(chars) ==
    IF chars # <<>> /\ IsSpace(Head(chars)) THEN LTrim(Tail(chars)) ELSE chars

RECURSIVE RTrim(_)
RTrim(chars) ==
    IF chars # <<>> /\ IsSpace(chars[Len(chars)])
    THEN RTrim(SubSeq(chars, 1, Len(chars) - 1)) ELSE chars

Trim(chars) == RTrim(LTrim(chars))

\* kw in msg
Contains(chars, kw) ==
    \E n \in 1..(Len(chars) - Len(kw) + 1) :
        SubSeq(chars, n, n + Len(kw) - 1) = kw

\* date_s.replace("Z", "+00:00")
RECURSIVE ReplaceZ(_)
ReplaceZ(chars) ==
    IF chars = <<>> THEN <<>>
    ELSE (IF Head(chars) = "Z" THEN <<"+", "0", "0", ":", "0", "0">>
          ELSE <<Head(chars)>>) \o ReplaceZ(Tail(chars))

IsDigit(ch) == ch \in {"0", "1", "2", "3", "4", "5", "6", "7", "8", "9"}
DigitValue(ch) == CHOOSE n \in 0..9 : ToString(n) = ch

\* the number written by the two digits at positions n, n + 1; -1 if they
\* are not two digits
TwoDigits(chars, n) ==
    IF n + 1 <= Len(chars) /\ IsDigit(chars[n]) /\ IsDigit(chars[n + 1])
    THEN 10 * DigitValue(chars[n]) + DigitValue(chars[n + 1])
    ELSE -1

\* [+-]HH:MM, the UTC offset that may end the string
IsOffset(chars) ==
    /\ Len(chars) = 6
    /\ chars[1] \in {"+", "-"}
    /\ TwoDigits(chars, 2) \in 0..23
    /\ chars[4] = ":"
    /\ TwoDigits(chars, 5) \in 0..59

\* what may follow HH: nothing, :MM or :MM:SS, then nothing or an offset
IsTimeRest(chars) ==
    \E n \in {0, 3, 6} :
        /\ n <= Len(chars)
        /\ n >= 3 => chars[1] = ":" /\ TwoDigits(chars, 2) \in 0..59
        /\ n >= 6 => chars[4] = ":" /\ TwoDigits(chars, 5) \in 0..59
        /\ Len(chars) = n \/ IsOffset(SubSeq(chars, n + 1, Len(chars)))

\* YYYY-MM-DD
IsDate(chars) ==
    /\ Len(chars) = 10
    /\ TwoDigits(chars, 1) >= 0 /\ TwoDigits(chars, 3) >= 0
    /\ TwoDigits(chars, 1) + TwoDigits(chars, 3) > 0
    /\ chars[5] = "-"
    /\ TwoDigits(chars, 6) \in 1..12
    /\ chars[8] = "-"
    /\ TwoDigits(chars, 9) \in 1..31

\* datetime.fromisoformat(s).hour: [ok |-> TRUE, hour |-> h], or
\* [ok |-> FALSE] when the string is no ISO timestamp (ValueError)
FromIsoFormat(chars) ==
    IF Len(chars) < 10 \/ ~IsDate(SubSeq(chars, 1, 10)) THEN [ok |-> FALSE]
    ELSE IF Len(chars) = 10 THEN [ok |-> TRUE, hour |-> 0]
    ELSE IF /\ Len(chars) >= 13
            /\ TwoDigits(chars, 12) \in 0..23
            /\ IsTimeRest(SubSeq(chars, 14, Len(chars)))
         THEN [ok |-> TRUE, hour |-> TwoDigits(chars, 12)]
         ELSE [ok |-> FALSE]

\* try: hour = fromisoformat(date_s.replace("Z", "+00:00")).hour
\* except Exception: hour = None
HourOf(c) ==
    LET date_s == IF OrEmpty(c.date) # <<>> THEN c.date.chars
                  ELSE OrEmpty(c.author_date)
    IN FromIsoFormat(ReplaceZ(date_s))

\* keywords = ["fix", "broken", "god", "wip", "urgent", "bug"]
Keywords ==
    <<[word |-> "fix", chars |-> <<"f", "i", "x">>],
      [word |-> "broken", chars |-> <<"b", "r", "o", "k", "e", "n">>],
      [word |-> "god", chars |-> <<"g", "o", "d">>],
      [word |-> "wip", chars |-> <<"w", "i", "p">>],
      [word |-> "urgent", chars |-> <<"u", "r", "g", "e", "n", "t">>],
      [word |-> "bug", chars |-> <<"b", "u", "g">>]>>

\* points of the three conditions, and the cap
ZombiePoints == 10
ShortPoints == 5
KeywordPoints == 8
DamageCap == 100
ZombieFrom == 1
ZombieTo == 4
ShortBelow == 5

\* acc = [score, signals]
ZombieStep(c, acc) ==
    LET h == HourOf(c)
    IN IF h.ok /\ ZombieFrom <= h.hour /\ h.hour <= ZombieTo
       THEN [score |-> acc.score + ZombiePoints,
             signals |-> Append(acc.signals,
                                "Zombie commit at hour " \o ToString(h.hour))]
       ELSE acc

ShortStep(c, acc) ==
    LET msg == Lower(OrEmpty(c.message))
    IN IF Len(Trim(msg)) > 0 /\ Len(Trim(msg)) < ShortBelow
       THEN [score |-> acc.score + ShortPoints,
             signals |-> Append(acc.signals, "Short commit message")]
       ELSE acc

\* the same without `break`: every keyword found is counted
RECURSIVE KeywordLoopNoBreak(_, _, _)
KeywordLoopNoBreak(msg, n, acc) ==
    IF n > Len(Keywords) THEN acc
    ELSE IF Contains(msg, Keywords[n].chars)
         THEN KeywordLoopNoBreak(msg, n + 1,
                [score |-> acc.score + KeywordPoints,
                 signals |-> Append(acc.signals,
                                    "Found keyword '" \o Keywords[n].word
                                    \o "' in message")])
         ELSE KeywordLoopNoBreak(msg, n + 1, acc)

\* for kw in keywords: if kw in msg: ...; break
RECURSIVE KeywordLoop(_, _, _)
KeywordLoop(msg, n, acc) ==
    IF n > Len(Keywords) THEN acc
    ELSE IF Contains(msg, Keywords[n].chars)
         THEN [score |-> acc.score + KeywordPoints,
               signals |-> Append(acc.signals,
                                  "Found keyword '" \o Keywords[n].word
                                  \o "' in message")]
         ELSE KeywordLoop(msg, n + 1, acc)

KeywordStep(c, acc) == KeywordLoop(Lower(OrEmpty(c.message)), 1, acc)

\* for c in commits: ...
RECURSIVE CommitLoop(_, _)
CommitLoop(cs, acc) ==
    IF cs = <<>> THEN acc
    ELSE CommitLoop(Tail(cs),
           KeywordStep(Head(cs), ShortStep(Head(cs), ZombieStep(Head(cs), acc))))

\* list(signals): the duplicates kept
RECURSIVE KeepDuplicates(_)
KeepDuplicates(signals) ==
    IF signals = <<>> THEN <<>>
    ELSE <<Head(signals)>> \o KeepDuplicates(Tail(signals))

\* list(dict.fromkeys(signals)): the first occurrence of each text, in order
RECURSIVE DictFromKeys(_)
DictFromKeys(signals) ==
    IF signals = <<>> THEN <<>>
    ELSE LET rest == DictFromKeys(SubSeq(signals, 1, Len(signals) - 1))
             x == signals[Len(signals)]
         IN IF \E n \in 1..Len(rest) : rest[n] = x THEN rest
            ELSE Append(rest, x)

\* damage = min(100, score)
Damage(score) == IF score < DamageCap THEN score ELSE DamageCap

CalculateBurnoutScoreLocally(cs) ==
    IF cs = <<>> THEN [done |-> TRUE, damage |-> 0, signals |-> <<>>, count |-> 0]
    ELSE LET acc == CommitLoop(cs, [score |-> 0, signals |-> <<>>])
         IN [done |-> TRUE,
             damage |-> Damage(acc.score),
             signals |-> DictFromKeys(acc.signals),
             count |-> Len(cs)]

\* The commit records the scanner is given.
Stamp(hh, rest) ==
    <<"2", "0", "2", "4", "-", "0", "1", "-", "1", "5", "T">> \o hh
    \o <<":", "3", "0", ":", "0", "0">> \o rest

CommitRecords == <<
    \* 1: {"message": "fix", "date": "2024-01-15T02:30:00Z"}
    [message |-> Text(<<"f", "i", "x">>),
     date |-> Text(Stamp(<<"0", "2">>, <<"Z">>)),
     author_date |-> Absent],
    \* 2: {"message": "Debug BROKEN fix", "date": "2024-01-15T24:30:00+00:00"}
    [message |-> Text(<<"D", "e", "b", "u", "g", " ", "B", "R", "O", "K", "E",
                        "N", " ", "f", "i", "x">>),
     date |-> Text(Stamp(<<"2", "4">>, <<"+", "0", "0", ":", "0", "0">>)),
     author_date |-> Absent],
    \* 3: {"message": " ok ", "author_date": "2024-01-15T04:30:00+05:30"}
    [message |-> Text(<<" ", "o", "k", " ">>),
     date |-> Absent,
     author_date |-> Text(Stamp(<<"0", "4">>, <<"+", "0", "5", ":", "3", "0">>))],
    \* 4: {"date": "yesterday"}
    [message |-> Absent,
     date |-> Text(<<"y", "e", "s", "t", "e", "r", "d", "a", "y">>),
     author_date |-> Absent],
    \* 5: {"message": "wip", "date": "2024-01-15T05:30:00Z"}
    [message |-> Text(<<"w", "i", "p">>),
     date |-> Text(Stamp(<<"0", "5">>, <<"Z">>)),
     author_date |-> Absent]
  >>

\* -------------------------------------------------------------------- state
VARIABLES
    state,      \* PersonaManager._state
    lock,       \* PersonaManager._lock is held
    last,       \* _last_events, _last_ai_response, _last_adjustments, _last_math
    clock,      \* the wall clock read by datetime.now
    calls,      \* number of calls started so far
    pc,         \* per task: "idle", or the await it is suspended at
    events,     \* per task: the `events` argument of its update_from_events
    prompt,     \* per task: what json.dumps wrote into the prompt it sent
    payload,    \* per task: the payload dict push_persona built
    ret,        \* per task: the value its last call returned
    retOp,      \* per task: the call that returned it
    held,       \* per task: the object get_state returned to it
    outcome,    \* per task: how the remote call of its last call ended
    heldAt,     \* history: the content of that object when it was returned
    built,      \* history: the content of the payload when it was built
    afterTimeout, \* history: the task's call started after a timeout was returned
    overlapped, \* history: the task's update started while another was in flight
    serial,     \* history: the proposals merged one after another
    nChanged,   \* history: number of updates that changed vitals or memory
    \* the orchestrator (TickSpec)
    orchPc,     \* where the orchestrator is in __main__ / run_life_simulation
    argOnce,    \* args.once, kept as bot._once
    once,       \* the `once` parameter of the running run_life_simulation
    tick,       \* number of loop iterations started
    tickEvents, \* `events` of the current iteration
    result,     \* `result` of the current iteration (None before the update)
    stats,      \* DigitalTwinOrchestrator.stats
    updated,    \* history: number of update_from_events calls in the iteration
    pushed,     \* history: number of push_persona calls in the iteration
    reacted,    \* history: number of react calls in the iteration
    \* the scanner (ScanSpec)
    commits,    \* the `commits` argument
    scan,       \* what calculate_burnout_score_locally(commits) returned
    \* the extractor (ExtractSpec)
    rawText,    \* the text the judgment model answered with
    extraction  \* what _find_json_substring and the parse made of it

personaVars == <<state, lock, last, clock, calls, pc, events, prompt, payload,
                 ret, retOp, held, outcome, heldAt, built, afterTimeout,
                 overlapped, serial, nChanged>>
orchVars == <<orchPc, argOnce, once, tick, tickEvents, result, stats, updated,
              pushed, reacted>>
scanVars == <<commits, scan>>
extractVars == <<rawText, extraction>>

vars == <<personaVars, orchVars, scanVars, extractVars>>

\* references to the objects the PersonaManager owns (never re-bound)
StateRef == [ref |-> "_state"]
MemoryRef == [ref |-> "_state.memory"]
NoRef == [ref |-> "None"]

\* the persona data of a state value
Data(st) == [vitals |-> st.vitals, memory |-> st.memory, version |-> st.version]

\* what a holder of reference r reads through it now
Deref(r) ==
    CASE r = StateRef -> state
      [] r = MemoryRef -> state.memory
      [] OTHER -> PyNone

\* datetime.now(timezone.utc).isoformat()
IsoFormat(t) == ToString(t)

\* async with self._lock: entered only when the lock is free, left released
Acquire(l) == TRUE
\* the same without the release on leaving the block
NoRelease(l) == l
Release(l) == FALSE

InitState ==
    [id |-> "digital-twin",
     vitals |-> [c \in Channels |-> 100],
     memory |-> <<>>,
     last_sync |-> PyNone,
     version |-> 0]

InitLast ==
    [events |-> PyNone, ai_response |-> PyNone, adjustments |-> PyNone,
     math |-> PyNone]

\* DigitalTwinOrchestrator.__init__: self.stats
InitStats == [c \in Channels |-> 100]

\* nothing scanned yet
NoScan == [done |-> FALSE]

\* nothing extracted yet
NotExtracted == [done |-> FALSE]

Init ==
    /\ state = InitState
    /\ lock = FALSE
    /\ last = InitLast
    /\ clock = 1
    /\ calls = 0
    /\ pc = [t \in Tasks |-> "idle"]
    /\ events = [t \in Tasks |-> <<>>]
    /\ prompt = [t \in Tasks |-> PyNone]
    /\ payload = [t \in Tasks |-> PyNone]
    /\ ret = [t \in Tasks |-> PyNone]
    /\ retOp = [t \in Tasks |-> "none"]
    /\ held = [t \in Tasks |-> NoRef]
    /\ outcome = [t \in Tasks |-> NoOutcome]
    /\ heldAt = [t \in Tasks |-> PyNone]
    /\ built = [t \in Tasks |-> PyNone]
    /\ afterTimeout = [t \in Tasks |-> FALSE]
    /\ overlapped = [t \in Tasks |-> FALSE]
    /\ serial = Data(InitState)
    /\ nChanged = 0
    /\ orchPc = "start"
    /\ argOnce = FALSE
    /\ once = FALSE
    /\ tick = 0
    /\ tickEvents = <<>>
    /\ result = PyNone
    /\ stats = InitStats
    /\ updated = 0
    /\ pushed = 0
    /\ reacted = 0
    /\ commits = <<>>
    /\ scan = NoScan
    /\ rawText = <<>>
    /\ extraction = NotExtracted

\* ------------------------------------------------------ update_from_events
\* raw = getattr(result, "output", None) or str(result)
RawOf(output) == IF output = <<>> THEN <<Word("RunResult()")>> ELSE output

\* the merge working on the persona data read before the await
MergeBaseStale(t) == Data(prompt[t].persona_state)

\* vitals = self._state.get("vitals", {}) ...: the data the merge works on
MergeBase(t) == Data(state)

\* Callers are numbered in the order of their first call.
Started(t) == pc[t] # "idle" \/ retOp[t] # "none" \/ held[t] # NoRef
InOrder(t) == \A u \in Tasks : u < t => Started(u)

\* Up to the await: the payload is built under the lock, the prompt is
\* written, and the call is suspended in minds_ai.run_prompt.
UpdateFromEventsCall(t, ev) ==
    /\ pc[t] = "idle"
    /\ InOrder(t)
    /\ calls < MaxCalls
    /\ ~lock
    /\ lock' = Release(Acquire(lock))
    /\ calls' = calls + 1
    /\ events' = [events EXCEPT ![t] = ev]
    /\ prompt' = [prompt EXCEPT ![t] = [persona_state |-> state, events |-> ev]]
    /\ pc' = [pc EXCEPT ![t] = "update_await"]
    /\ afterTimeout' = [afterTimeout EXCEPT ![t] =
                           \E u \in Tasks : /\ pc[u] = "idle"
                                            /\ retOp[u] = "update"
                                            /\ outcome[u].kind = "timeout"]
    /\ overlapped' = [overlapped EXCEPT ![t] =
                         \E u \in Tasks : pc[u] = "update_await"]
    /\ UNCHANGED <<state, last, clock, payload, ret, retOp, held, outcome,
                   heldAt, built, serial, nChanged>>

\* result = await minds_ai.run_prompt(...), and the parse of its output, for
\* each outcome of the judgment call
JudgmentResults == [i \in 1..Len(JudgmentOutcomes) |-> RunPrompt(JudgmentOutcomes[i])]

JudgmentParsed ==
    [i \in 1..Len(JudgmentOutcomes) |->
        IF JudgmentResults[i].raised THEN PyNone
        ELSE ParseRaw(RawOf(JudgmentResults[i].output))]

\* From the await to the return, for the i-th outcome of the remote call.
UpdateFromEventsResume(t, i) ==
    LET o == JudgmentOutcomes[i]
        r == JudgmentResults[i]
        parsed == JudgmentParsed[i]
    IN
    /\ pc[t] = "update_await"
    /\ pc' = [pc EXCEPT ![t] = "idle"]
    /\ retOp' = [retOp EXCEPT ![t] = "update"]
    /\ outcome' = [outcome EXCEPT ![t] = o]
    /\ events' = [events EXCEPT ![t] = <<>>]
    /\ prompt' = [prompt EXCEPT ![t] = PyNone]
    /\ IF r.raised
       THEN \* except Exception as e: return {"error": str(e)}
            /\ ret' = [ret EXCEPT ![t] = ErrorMarker(r.msg)]
            /\ UNCHANGED <<state, lock, last, serial, nChanged>>
       ELSE \E m \in {Merge(MergeBase(t), parsed)} :
            \E sm \in {Merge(serial, parsed)} :
               /\ ~lock
               /\ lock' = Release(Acquire(lock))
               /\ state' = [state EXCEPT !.vitals = m.vitals,
                                         !.memory = m.memory,
                                         !.version = m.version]
               /\ serial' = [vitals |-> sm.vitals, memory |-> sm.memory,
                             version |-> sm.version]
               /\ nChanged' = IF m.vitals # state.vitals
                                 \/ m.memory # state.memory
                              THEN nChanged + 1 ELSE nChanged
               /\ IF m.raised
                  THEN /\ ret' = [ret EXCEPT ![t] = ErrorMarker(m.msg)]
                       /\ UNCHANGED last
                  ELSE /\ ret' = [ret EXCEPT ![t] = parsed]
                       /\ last' = [events |-> events[t],
                                   ai_response |-> parsed,
                                   adjustments |-> DictGet(parsed, "adjustments"),
                                   math |-> DictGet(parsed, "math")]
    /\ UNCHANGED <<clock, calls, payload, held, heldAt, built, afterTimeout,
                   overlapped>>

\* ------------------------------------------------------------- push_persona
\* Up to the await: last_sync is stamped under the lock, the payload is
\* built from the manager's own objects, the prompt is written from it.
\* the same with the version counted up by the stamp
StampBumpsVersion(st, now) ==
    [st EXCEPT !.last_sync = PyStr(IsoFormat(now)), !.version = @ + 1]

\* self._state["last_sync"] = datetime.now(timezone.utc).isoformat()
Stamped(st, now) == [st EXCEPT !.last_sync = PyStr(IsoFormat(now))]

\* the same built without the proposal of the last update
PayloadWithoutProposal(st, l, now) ==
    [timestamp |-> IsoFormat(now),
     id |-> st.id,
     state |-> StateRef,
     memory |-> MemoryRef,
     last_events |-> l.events,
     last_adjustments |-> PyNone,
     last_math |-> PyNone,
     ai_response |-> PyNone]

\* payload = {"timestamp": ..., "id": ..., "state": self._state, ...}
Payload(st, l, now) ==
    [timestamp |-> IsoFormat(now),
     id |-> st.id,
     state |-> StateRef,
     memory |-> MemoryRef,
     last_events |-> l.events,
     last_adjustments |-> l.adjustments,
     last_math |-> l.math,
     ai_response |-> l.ai_response]

PushPersonaCall(t) ==
    LET stamped == Stamped(state, clock)
        made == Payload(state, last, clock)
        dumped == [made EXCEPT !.state = stamped, !.memory = stamped.memory]
    IN /\ pc[t] = "idle"
       /\ InOrder(t)
       /\ calls < MaxCalls
       /\ ~lock
       /\ lock' = Release(Acquire(lock))
       /\ calls' = calls + 1
       /\ clock' = clock + 1
       /\ state' = stamped
       /\ payload' = [payload EXCEPT ![t] = made]
       /\ prompt' = [prompt EXCEPT ![t] = dumped]
       /\ built' = [built EXCEPT ![t] = dumped]
       /\ pc' = [pc EXCEPT ![t] = "push_await"]
       /\ afterTimeout' = [afterTimeout EXCEPT ![t] = FALSE]
       /\ overlapped' = [overlapped EXCEPT ![t] = FALSE]
       /\ UNCHANGED <<last, events, ret, retOp, held, outcome, heldAt, serial,
                      nChanged>>

\* the same with `except Exception: pass`: assessment_text stays None
AssessmentTextDropped(r) ==
    IF r.raised THEN [failed |-> TRUE, msg |-> "None"]
    ELSE [failed |-> FALSE, raw |-> RawOf(r.output)]

\* assessment_text: the answer's text, or f"AI assessment failed: {e}"
AssessmentText(r) ==
    IF r.raised THEN [failed |-> TRUE, msg |-> "AI assessment failed: " \o r.msg]
    ELSE [failed |-> FALSE, raw |-> RawOf(r.output)]

AssessmentResults ==
    [i \in 1..Len(AssessmentOutcomes) |-> RunPrompt(AssessmentOutcomes[i])]

\* From the await to the return, for the i-th outcome of the assessment call.
PushPersonaResume(t, i) ==
    LET o == AssessmentOutcomes[i]
        r == AssessmentResults[i]
        assessment_text == AssessmentText(r)
    IN /\ pc[t] = "push_await"
       /\ pc' = [pc EXCEPT ![t] = "idle"]
       /\ retOp' = [retOp EXCEPT ![t] = "push"]
       /\ outcome' = [outcome EXCEPT ![t] = o]
       /\ prompt' = [prompt EXCEPT ![t] = PyNone]
       /\ ret' = [ret EXCEPT ![t] = [payload |-> payload[t],
                                     assessment_raw |-> assessment_text]]
       /\ UNCHANGED <<state, lock, last, clock, calls, events, payload, held,
                      heldAt, built, afterTimeout, overlapped, serial, nChanged>>

\* ---------------------------------------------------------------- get_state
\* return self._state
GetStateResult == StateRef

\* a caller keeps what get_state returned (the orchestrator keeps its vitals)
GetState(t) ==
    /\ pc[t] = "idle"
    /\ InOrder(t)
    /\ calls < MaxCalls
    /\ calls' = calls + 1
    /\ held' = [held EXCEPT ![t] = GetStateResult]
    /\ heldAt' = [heldAt EXCEPT ![t] = state]
    /\ UNCHANGED <<state, lock, last, clock, pc, events, prompt, payload, ret,
                   retOp, outcome, built, afterTimeout, overlapped, serial,
                   nChanged>>

\* ------------------------------------------------------------- orchestrator
\* async def run_life_simulation(self, once: bool = False)
OnceDefault == FALSE

\* self.persona.get_state().get('vitals', self.stats): the vitals dict itself
VitalsRef == [ref |-> "_state.vitals"]

\* the same with the flag ignored: every dict result is pushed
ShouldPushAlways(r) == r.kind = "dict"

\* isinstance(result, dict) and result.get('push', True)
ShouldPush(r) ==
    /\ r.kind = "dict"
    /\ IF DictHas(r, "push") THEN Truthy(DictGet(r, "push")) ELSE TRUE

\* __main__: bot._once = args.once, then asyncio.run(bot.run_life_simulation())
\* on either branch, without the `once` argument
Main(flag) ==
    /\ orchPc = "start"
    /\ argOnce' = flag
    /\ once' = OnceDefault
    /\ orchPc' = "gather"
    /\ UNCHANGED <<tick, tickEvents, result, stats, updated, pushed, reacted,
                   personaVars, scanVars, extractVars>>

\* the commit lists check_github fetches: none, one that scores nothing, one
\* that scores
FetchedCommits == << <<>>, <<CommitRecords[4]>>, <<CommitRecords[1]>> >>

\* check_github: an event only when the heuristic damage is above 0
CheckGithub(burnout_data) ==
    IF burnout_data.damage > 0 THEN <<"GITHUB">> ELSE <<>>

\* the same with the update branch taken whatever the events
AfterGatherAlwaysUpdate(ev) == "update_call"

\* `if events:` ... `else:` (resting)
AfterGather(ev) == IF ev # <<>> THEN "update_call" ELSE "tick_end"

\* while True: events = [] ... the sensors are read (cs: the commits
\* check_github fetched; ev: what the other sensors produced); `if events:`
Gather(cs, ev) ==
    LET burnout_data == CalculateBurnoutScoreLocally(cs)
        gathered == CheckGithub(burnout_data) \o ev
    IN /\ orchPc = "gather"
       /\ tick < MaxTicks
       /\ tick' = tick + 1
       /\ commits' = cs
       /\ scan' = burnout_data
       /\ tickEvents' = gathered
       /\ result' = PyNone
       /\ updated' = 0
       /\ pushed' = 0
       /\ reacted' = 0
       /\ orchPc' = AfterGather(gathered)
       /\ UNCHANGED <<argOnce, once, stats, personaVars, extractVars>>

\* result = await self.persona.update_from_events(events, self.stats): up to
\* the await inside it
TickUpdateCall ==
    /\ orchPc = "update_call"
    /\ UpdateFromEventsCall(1, tickEvents)
    /\ updated' = updated + 1
    /\ orchPc' = "update_await"
    /\ UNCHANGED <<argOnce, once, tick, tickEvents, result, stats, pushed,
                   reacted, scanVars, extractVars>>

\* the update returns; self.stats = ...get_state().get('vitals', ...);
\* `if isinstance(result, dict) and result.get('push', True):`
TickUpdateResume(i) ==
    /\ orchPc = "update_await"
    /\ UpdateFromEventsResume(1, i)
    /\ result' = ret'[1]
    /\ stats' = VitalsRef
    /\ orchPc' = IF ShouldPush(ret'[1]) THEN "push_call" ELSE "react"
    /\ UNCHANGED <<argOnce, once, tick, tickEvents, updated, pushed, reacted,
                   scanVars, extractVars>>

\* push_result = await self.persona.push_persona(): up to the await inside it
TickPushCall ==
    /\ orchPc = "push_call"
    /\ PushPersonaCall(1)
    /\ pushed' = pushed + 1
    /\ orchPc' = "push_await"
    /\ UNCHANGED <<argOnce, once, tick, tickEvents, result, stats, updated,
                   reacted, scanVars, extractVars>>

\* the push returns and is written to persona_last_push.json
TickPushResume(i) ==
    /\ orchPc = "push_await"
    /\ PushPersonaResume(1, i)
    /\ orchPc' = "react"
    /\ UNCHANGED <<argOnce, once, tick, tickEvents, result, stats, updated,
                   pushed, reacted, scanVars, extractVars>>

\* await self.react(events): its own failures are caught inside it
React ==
    /\ orchPc = "react"
    /\ reacted' = reacted + 1
    /\ orchPc' = "tick_end"
    /\ UNCHANGED <<argOnce, once, tick, tickEvents, result, stats, updated,
                   pushed, personaVars, scanVars, extractVars>>

\* if once: return; else await asyncio.sleep(HEARTBEAT_RATE) and loop
TickEnd ==
    /\ orchPc = "tick_end"
    /\ orchPc' = IF once THEN "returned" ELSE "gather"
    /\ UNCHANGED <<argOnce, once, tick, tickEvents, result, stats, updated,
                   pushed, reacted, personaVars, scanVars, extractVars>>

TickNext ==
    \/ \E flag \in BOOLEAN : Main(flag)
    \/ \E c \in 1..Len(FetchedCommits), n \in 1..Len(EventBatches) :
          Gather(FetchedCommits[c], EventBatches[n])
    \/ TickUpdateCall
    \/ \E i \in 1..Len(JudgmentOutcomes) : TickUpdateResume(i)
    \/ TickPushCall
    \/ \E i \in 1..Len(AssessmentOutcomes) : TickPushResume(i)
    \/ React
    \/ TickEnd

TickSpec == Init /\ [][TickNext]_vars

\* ------------------------------------------------------------------ scanner
\* a caller (check_github, analyze_with_dedalus) has fetched one more commit
AddCommit(n) ==
    /\ Len(commits) < MaxCommits
    /\ commits' = Append(commits, CommitRecords[n])
    /\ scan' = NoScan
    /\ UNCHANGED <<personaVars, orchVars, extractVars>>

\* burnout_data = burnout_scanner.calculate_burnout_score_locally(commits)
Calculate ==
    /\ ~scan.done
    /\ scan' = CalculateBurnoutScoreLocally(commits)
    /\ UNCHANGED <<commits, personaVars, orchVars, extractVars>>

ScanNext ==
    \/ \E n \in 1..Len(CommitRecords) : AddCommit(n)
    \/ Calculate

ScanSpec == Init /\ [][ScanNext]_vars

\* ---------------------------------------------------------------- extractor
\* the lexemes a judgment text is put together from: brackets of both shapes,
\* a quote, a blank and a word of prose
TextTokens == <<LBrace, RBrace, LBrack, RBrack, Quote, Ws, Word("w")>>

\* result = await minds_ai.run_prompt(...): one more lexeme of the answer
ReceiveToken(n) ==
    /\ Len(rawText) < MaxTokens
    /\ rawText' = Append(rawText, TextTokens[n])
    /\ extraction' = NotExtracted
    /\ UNCHANGED <<personaVars, orchVars, scanVars>>

\* raw = ...; sub = _find_json_substring(raw); parsed = ...
Extract ==
    /\ ~extraction.done
    /\ extraction' = [done |-> TRUE,
                      sub |-> FindJsonSubstring(RawOf(rawText)),
                      parsed |-> ParseRaw(RawOf(rawText))]
    /\ UNCHANGED <<rawText, personaVars, orchVars, scanVars>>

ExtractNext ==
    \/ \E n \in 1..Len(TextTokens) : ReceiveToken(n)
    \/ Extract

ExtractSpec == Init /\ [][ExtractNext]_vars

\* ------------------------------------------------------------ specification
\* Concurrent callers of one PersonaManager.
Next ==
    \/ \E t \in Tasks : \E i \in 1..Len(EventBatches) :
          /\ UpdateFromEventsCall(t, EventBatches[i])
          /\ UNCHANGED <<orchVars, scanVars, extractVars>>
    \/ \E t \in Tasks : \E i \in 1..Len(JudgmentOutcomes) :
          /\ UpdateFromEventsResume(t, i)
          /\ UNCHANGED <<orchVars, scanVars, extractVars>>
    \/ \E t \in Tasks :
          /\ PushPersonaCall(t)
          /\ UNCHANGED <<orchVars, scanVars, extractVars>>
    \/ \E t \in Tasks : \E i \in 1..Len(AssessmentOutcomes) :
          /\ PushPersonaResume(t, i)
          /\ UNCHANGED <<orchVars, scanVars, extractVars>>
    \/ \E t \in Tasks :
          /\ GetState(t)
          /\ UNCHANGED <<orchVars, scanVars, extractVars>>

Spec == Init /\ [][Next]_vars

\* ================================================================== claims
IsErrorMarker(v) == v.kind = "dict" /\ DictHas(v, "error")

\* the proposal has an integer for channel c under `field`
HasIntFor(p, field, c) ==
    /\ p.kind = "dict"
    /\ DictGet(p, field).kind = "dict"
    /\ DictGet(DictGet(p, field), c).kind = "int"

IntFor(p, field, c) == DictGet(DictGet(p, field), c).int

\* this step is task t's update_from_events resuming on outcome i and
\* returning (no other action takes pc[t] from "update_await" to "idle")
Resumes(t, i) ==
    /\ pc[t] = "update_await"
    /\ pc'[t] = "idle"
    /\ outcome'[t] = JudgmentOutcomes[i]

\* task u last returned from update_from_events and is not in a call
ReturnedUpdate(u) == pc[u] = "idle" /\ retOp[u] = "update"

\* C1: after any sequence of updates every vitals channel is in [0,100]; an
\* absolute value above 100 yields 100 and one below 0 yields 0 (for a
\* channel the same proposal gives no delta).
C1_VitalsClamped ==
    /\ [](\A c \in Channels : state.vitals[c] \in 0..100)
    /\ [][\A t \in Tasks : \A i \in 1..Len(JudgmentOutcomes) :
          \A c \in Channels :
            (/\ Resumes(t, i)
             /\ ~IsErrorMarker(ret'[t])
             /\ HasIntFor(JudgmentParsed[i], "new_stats", c)
             /\ ~HasIntFor(JudgmentParsed[i], "adjustments", c))
            => /\ IntFor(JudgmentParsed[i], "new_stats", c) > 100
                    => state'.vitals[c] = 100
               /\ IntFor(JudgmentParsed[i], "new_stats", c) < 0
                    => state'.vitals[c] = 0]_vars

\* an update with absolute energy -50 returned and energy is 0
C1_Witness ==
    \E t \in Tasks :
        /\ ReturnedUpdate(t)
        /\ HasIntFor(ret[t], "new_stats", "energy")
        /\ IntFor(ret[t], "new_stats", "energy") < 0
        /\ state.vitals["energy"] = 0

\* C2: a proposal with an absolute value and a delta for the same channel
\* leaves the channel at clamp(absolute): the delta is not applied.
C2_AbsoluteWins ==
    [][\A t \in Tasks : \A i \in 1..Len(JudgmentOutcomes) : \A c \in Channels :
          (/\ Resumes(t, i)
           /\ HasIntFor(JudgmentParsed[i], "new_stats", c)
           /\ HasIntFor(JudgmentParsed[i], "adjustments", c))
          => LET a == IntFor(JudgmentParsed[i], "new_stats", c)
             IN state'.vitals[c] =
                  IF a > 100 THEN 100 ELSE IF a < 0 THEN 0 ELSE a]_vars

\* C3: version equals its initial value (0) plus the number of updates that
\* changed vitals or memory.
C3_VersionCountsChanges == state.version = nChanged

\* C4: an update that leaves vitals and memory as they were leaves version
\* as it was.
C4_NoOpKeepsVersion ==
    [][\A t \in Tasks : \A i \in 1..Len(JudgmentOutcomes) :
          (/\ Resumes(t, i)
           /\ state'.vitals = state.vitals
           /\ state'.memory = state.memory)
          => state'.version = state.version]_vars

\* C5: an update that returns an error marker leaves the persona state
\* exactly as it was.
C5_ErrorLeavesState ==
    [][\A t \in Tasks : \A i \in 1..Len(JudgmentOutcomes) :
          (Resumes(t, i) /\ IsErrorMarker(ret'[t]))
          => state' = state]_vars

\* the text of outcome i holds no JSON at all: only words and whitespace
NoJsonText(i) ==
    /\ JudgmentOutcomes[i].kind = "text"
    /\ \A j \in 1..Len(JudgmentOutcomes[i].text) :
          JudgmentOutcomes[i].text[j].t \in {"word", "ws"}

C7_MergesSerialized == lock = FALSE /\ Data(state) = serial

\* two updates were in flight together and both have merged a change
C7_Witness ==
    \E t \in Tasks : \E u \in Tasks :
        /\ t # u
        /\ ReturnedUpdate(t) /\ ReturnedUpdate(u)
        /\ overlapped[u]
        /\ ~IsErrorMarker(ret[t]) /\ ~IsErrorMarker(ret[u])
        /\ nChanged = 2

\* C8: when the judgment call times out, the update returns the timeout
\* error marker, the state is unchanged, and the lock is free, so that a
\* later update is not blocked.
C8_TimeoutIsolated ==
    /\ [](lock = FALSE)
    /\ [][\A t \in Tasks : \A i \in 1..Len(JudgmentOutcomes) :
          (Resumes(t, i) /\ JudgmentOutcomes[i].kind = "timeout")
          => /\ IsErrorMarker(ret'[t])
             /\ DictGet(ret'[t], "error") = PyStr("Dedalus call timed out after 30s")
             /\ state' = state
             /\ lock' = FALSE
             /\ pc'[t] = "idle"]_vars

\* an update that started after a timeout was returned has merged its proposal
C8_Witness ==
    \E u \in Tasks :
        /\ ReturnedUpdate(u)
        /\ afterTimeout[u]
        /\ outcome[u].kind = "text"
        /\ ~IsErrorMarker(ret[u])
        /\ state.version > 0

\* C9: the payload push_persona built shows, whenever it is read, the
\* vitals, memory and version the persona had when it was built.
C9_SnapshotImmutable ==
    \A t \in Tasks :
        /\ pc[t] = "push_await" =>
              /\ Data(Deref(payload[t].state)) = Data(built[t].state)
              /\ Deref(payload[t].memory) = built[t].memory
        /\ (pc[t] = "idle" /\ retOp[t] = "push") =>
              /\ Data(Deref(ret[t].payload.state)) = Data(built[t].state)
              /\ Deref(ret[t].payload.memory) = built[t].memory

\* C10: what get_state returned keeps the vitals, memory and version it had
\* when it was returned, whatever is merged later.
C10_GetStateIsCopy ==
    \A t \in Tasks :
        held[t] # NoRef => Data(Deref(held[t])) = Data(heldAt[t])

\* the names the proposal gives values or deltas for
NamedChannels(p) ==
    LET keysOf(v) == IF v.kind = "dict"
                     THEN {v.items[j][1] : j \in 1..Len(v.items)} ELSE {}
    IN IF p.kind = "dict"
       THEN keysOf(DictGet(p, "new_stats")) \cup keysOf(DictGet(p, "adjustments"))
       ELSE {}

\* the proposal names channels, none of them configured, and adds no memory
NamesOnlyUnknown(p) ==
    /\ NamedChannels(p) # {}
    /\ NamedChannels(p) \cap Channels = {}
    /\ ~DictHas(p, "memory_additions")

\* C11: the key set of vitals is {energy, resilience, social} in every
\* state, and an update whose proposal names only channels that are not
\* configured leaves every channel, the memory and the version as they were.
C11_UnknownChannelIgnored ==
    /\ [](DOMAIN state.vitals = {"energy", "resilience", "social"})
    /\ [][\A t \in Tasks : \A i \in 1..Len(JudgmentOutcomes) :
          (Resumes(t, i) /\ NamesOnlyUnknown(JudgmentParsed[i]))
          => /\ ~IsErrorMarker(ret'[t])
             /\ Data(state') = Data(state)]_vars

\* an update whose proposal sets and adjusts `mood` has returned
C11_Witness ==
    \E t \in Tasks :
        /\ ReturnedUpdate(t)
        /\ HasIntFor(ret[t], "new_stats", "mood")
        /\ HasIntFor(ret[t], "adjustments", "mood")
        /\ DOMAIN state.vitals = Channels

\* the judgment answered with the text {}
EmptyObjectText(o) == o.kind = "text" /\ o.text = <<LBrace, RBrace>>

\* C12: an update called with an empty event batch and answered {} leaves
\* vitals, memory and version as they were, and so does every repetition of
\* it (the step is the same from every reachable state).
C12_EmptyUpdateIsNoOp ==
    [][\A t \in Tasks : \A i \in 1..Len(JudgmentOutcomes) :
          (/\ Resumes(t, i)
           /\ events[t] = <<>>
           /\ EmptyObjectText(JudgmentOutcomes[i]))
          => /\ ret'[t] = EmptyDict
             /\ Data(state') = Data(state)]_vars

\* the call was made twice with an empty batch and the answer {}, and the
\* persona is as constructed
C12_Witness ==
    /\ calls = 2
    /\ \A t \in 1..2 : ReturnedUpdate(t) /\ EmptyObjectText(outcome[t])
    /\ last.events = <<>>
    /\ last.ai_response = EmptyDict
    /\ Data(state) = Data(InitState)

\* the proposal with its ill-typed parts removed: new_stats and adjustments
\* kept only if they are maps, and in them only the values convertible to
\* an integer; memory_additions kept only if it is a list, and in it only
\* the strings
WellFormedPart(p) ==
    LET IntEntry(kv) == ToInt(kv[2]).ok
        IsString(v) == v.kind = "str"
        Field(k, v) ==
            CASE k \in {"new_stats", "adjustments"} /\ v.kind = "dict" ->
                   <<<<k, PyDict(SelectSeq(v.items, IntEntry))>>>>
              [] k \in {"new_stats", "adjustments"} /\ v.kind # "dict" -> <<>>
              [] k = "memory_additions" /\ v.kind = "list" ->
                   <<<<k, PyList(SelectSeq(v.elems, IsString))>>>>
              [] k = "memory_additions" /\ v.kind # "list" -> <<>>
              [] OTHER -> <<<<k, v>>>>
        Fields[n \in 0..Len(p.items)] ==
            IF n = 0 THEN <<>>
            ELSE Fields[n - 1] \o Field(p.items[n][1], p.items[n][2])
    IN PyDict(Fields[Len(p.items)])

\* C13: an update whose proposal is a JSON object returns that proposal, not
\* an error marker, whatever the types of its fields, and the persona is
\* what the merge of the well-formed part of the proposal gives.
C13_MalformedFieldsDropped ==
    [][\A t \in Tasks : \A i \in 1..Len(JudgmentOutcomes) :
          (Resumes(t, i) /\ JudgmentParsed[i].kind = "dict")
          => /\ ret'[t] = JudgmentParsed[i]
             /\ Data(state') =
                  Data(Merge(Data(state), WellFormedPart(JudgmentParsed[i])))]_vars

\* task t last returned from push_persona and is not in a call
ReturnedPush(t) == pc[t] = "idle" /\ retOp[t] = "push"

\* C14: whatever the outcome of the assessment call, push_persona returns
\* the payload it built together with an assessment text, and when the call
\* timed out or failed that text is the failure message.
C14_PushNeverFails ==
    \A t \in Tasks :
        ReturnedPush(t) =>
            /\ ret[t].payload = payload[t]
            /\ ret[t].payload.state = StateRef
            /\ outcome[t].kind = "text" => ~ret[t].assessment_raw.failed
            /\ outcome[t].kind = "timeout" =>
                  ret[t].assessment_raw.msg =
                      "AI assessment failed: Dedalus call timed out after 30s"
            /\ outcome[t].kind = "failure" =>
                  ret[t].assessment_raw.msg =
                      "AI assessment failed: Connection error."

\* a push whose assessment call timed out has returned, and one whose
\* assessment call failed has returned
C14_Witness ==
    \E t \in Tasks : \E u \in Tasks :
        /\ ReturnedPush(t) /\ outcome[t].kind = "timeout"
        /\ ReturnedPush(u) /\ outcome[u].kind = "failure"

\* C15: whatever the judgment call gave (a JSON object, an array or a
\* scalar, JSON inside prose, text with no JSON, a timeout, a transport
\* failure), the update has returned a dict: the parsed proposal, or an error
\* marker whose value is the message; and no update waits for the lock.
C15_UpdateNeverRaises ==
    \A t \in Tasks :
        /\ pc[t] = "update_await" => ~lock
        /\ ReturnedUpdate(t) =>
              \/ /\ IsErrorMarker(ret[t])
                 /\ Len(ret[t].items) = 1
                 /\ DictGet(ret[t], "error").kind = "str"
              \/ /\ outcome[t].kind = "text"
                 /\ ret[t].kind = "dict"
                 /\ ret[t] = ParseRaw(RawOf(outcome[t].text))

\* an update answered with a JSON scalar and one whose call failed in the
\* transport have both returned
C15_Witness ==
    \E t \in Tasks : \E u \in Tasks :
        /\ ReturnedUpdate(t) /\ outcome[t] = TextOutcome(<<NullTok>>)
        /\ ReturnedUpdate(u) /\ outcome[u].kind = "failure"
        /\ IsErrorMarker(ret[t]) /\ IsErrorMarker(ret[u])

\* the penalties of one commit record, as the scoring rule states them
HourPenalty(c) ==
    IF HourOf(c).ok /\ HourOf(c).hour \in 1..4 THEN 10 ELSE 0

ShortPenalty(c) ==
    IF Len(Trim(Lower(OrEmpty(c.message)))) \in 1..4 THEN 5 ELSE 0

KeywordPenalty(c) ==
    IF \E n \in 1..Len(Keywords) :
          Contains(Lower(OrEmpty(c.message)), Keywords[n].chars)
    THEN 8 ELSE 0

RECURSIVE PenaltySum(_)
PenaltySum(cs) ==
    IF cs = <<>> THEN 0
    ELSE HourPenalty(Head(cs)) + ShortPenalty(Head(cs))
         + KeywordPenalty(Head(cs)) + PenaltySum(Tail(cs))

\* C16: damage is the sum of the records' penalties (10 for an hour in
\* 1..4, 5 for a trimmed message of 1..4 characters, 8 for a message with a
\* keyword, once per record), capped at 100; it lies in 0..100; a record
\* whose timestamp does not parse gets no hour penalty; the record "fix" at
\* 02:30 gets 10 + 5 + 8.
C16_DamageIsCappedSum ==
    scan.done =>
        /\ \A sum \in {PenaltySum(commits)} :
              scan.damage = IF sum < 100 THEN sum ELSE 100
        /\ scan.damage \in 0..100
        /\ commits = <<CommitRecords[1]>> => scan.damage = 23
        /\ commits = <<CommitRecords[2]>> => scan.damage = 8
        /\ commits = <<CommitRecords[4]>> => scan.damage = 0

\* five records with all three penalties were scanned: 115 points, damage 100
C16_Witness ==
    /\ scan.done
    /\ Len(commits) = 5
    /\ \A n \in 1..5 : commits[n] = CommitRecords[1]
    /\ PenaltySum(commits) = 115
    /\ scan.damage = 100

\* the condition texts in the order the conditions fired
Fired == CommitLoop(commits, [score |-> 0, signals |-> <<>>]).signals

\* the position of the first x in seq
FirstIndex(seq, x) ==
    CHOOSE n \in 1..Len(seq) : seq[n] = x /\ \A m \in 1..(n - 1) : seq[m] # x

\* signals holds each text of fired once, in the order of first occurrence
FirstOccurrences(signals, fired) ==
    /\ {signals[n] : n \in 1..Len(signals)} = {fired[n] : n \in 1..Len(fired)}
    /\ \A n \in 1..Len(signals) : \A m \in 1..Len(signals) :
          /\ n # m => signals[n] # signals[m]
          /\ n < m => FirstIndex(fired, signals[n]) < FirstIndex(fired, signals[m])

\* C17: signals holds each condition text that fired exactly once, in the
\* order of first occurrence; count is the number of records; with no
\* record the result is damage 0, no signals, count 0.
C17_SignalsDeduplicated ==
    scan.done =>
        /\ scan.count = Len(commits)
        /\ \A fired \in {Fired} : FirstOccurrences(scan.signals, fired)
        /\ commits = <<>> =>
              scan.damage = 0 /\ scan.signals = <<>> /\ scan.count = 0

\* a scan in which a condition text fired twice and another fired after it
C17_Witness ==
    /\ scan.done
    /\ commits = <<CommitRecords[1], CommitRecords[5], CommitRecords[1]>>
    /\ Len(Fired) = 8
    /\ scan.signals = <<"Zombie commit at hour 2", "Short commit message",
                        "Found keyword 'fix' in message",
                        "Found keyword 'wip' in message">>

\* the proposal lists memory additions, all of them strings
HasStringAdditions(p) ==
    /\ p.kind = "dict"
    /\ DictGet(p, "memory_additions").kind = "list"
    /\ \A n \in 1..Len(DictGet(p, "memory_additions").elems) :
          DictGet(p, "memory_additions").elems[n].kind = "str"

\* [mk, ..., m1] for the additions m1..mk of the proposal
AdditionsReversed(p) ==
    LET ms == DictGet(p, "memory_additions").elems
    IN [n \in 1..Len(ms) |-> ms[Len(ms) + 1 - n].str]

IsSuffix(old, new) ==
    /\ Len(old) <= Len(new)
    /\ SubSeq(new, Len(new) - Len(old) + 1, Len(new)) = old

\* C18: an update that merged memory additions m1..mk leaves memory equal
\* to [mk, ..., m1] followed by the previous memory, and every step (of an
\* update, a publish or a read) keeps the previous memory as the tail of
\* the new one.
C18_MemoryPrependOnly ==
    [][/\ IsSuffix(state.memory, state'.memory)
       /\ \A t \in Tasks : \A i \in 1..Len(JudgmentOutcomes) :
            (/\ Resumes(t, i)
             /\ ~IsErrorMarker(ret'[t])
             /\ HasStringAdditions(JudgmentParsed[i]))
            => state'.memory = AdditionsReversed(JudgmentParsed[i]) \o state.memory
      ]_vars

\* two updates have each added "a", "b" to the memory
C18_Witness ==
    /\ \E t \in Tasks : ReturnedUpdate(t) /\ HasStringAdditions(ret[t])
    /\ state.memory = <<"b", "a", "b", "a">>

\* C19: started with --once, the orchestrator starts one loop iteration
\* only, with at most one update, one publish and one reaction in it.
C19_OnceRunsOneTick ==
    argOnce => /\ tick <= 1
               /\ updated <= 1 /\ pushed <= 1 /\ reacted <= 1

\* the returned value has its push flag true or absent
FlagTrueOrAbsent(r) ==
    /\ r.kind = "dict"
    /\ ~DictHas(r, "push") \/ DictGet(r, "push") = PyBool(TRUE)

\* C20: in an iteration that called update_from_events, push_persona is
\* called (once) exactly when the value the update returned has its push
\* flag true or absent; after a returned `push: false` it is not called.
C20_PushFlagDecides ==
    /\ pushed > 0 => updated = 1 /\ FlagTrueOrAbsent(result)
    /\ (updated = 1 /\ orchPc \in {"push_await", "react", "tick_end"})
         => (pushed = 1 <=> FlagTrueOrAbsent(result))
    /\ (updated = 1 /\ orchPc \in {"react", "tick_end"}
           /\ DictGet(result, "push") = PyBool(FALSE))
         => pushed = 0

\* an iteration whose update returned {"push": false} has reacted without
\* a publish
C20_Witness ==
    /\ orchPc = "tick_end"
    /\ updated = 1
    /\ result = PyDict(<<<<"push", PyBool(FALSE)>>>>)
    /\ pushed = 0
    /\ reacted = 1

\* C21: the extractor returns the part of the stripped text from its first
\* opening bracket to the first position where the depth, counting brackets
\* of both shapes, is back at zero; without an opening bracket, or when the
\* depth stays above zero, it returns nothing, and the proposal is the whole
\* text read as JSON, or {} when that fails.
OpenAt(s) == {i \in 1..Len(s) : s[i].t = "open"}
CloseAt(s) == {i \in 1..Len(s) : s[i].t = "close"}
Depth(s, from, j) ==
    Cardinality(OpenAt(s) \cap from..j) - Cardinality(CloseAt(s) \cap from..j)
Least(S) == CHOOSE x \in S : \A y \in S : x <= y
DepthZeroAt(s, from) == {j \in from..Len(s) : Depth(s, from, j) = 0}
WholeOrEmpty(raw) ==
    IF JsonLoads(raw).ok THEN JsonLoads(raw).val ELSE EmptyDict
C21_ExtractorIsDepthScan ==
    extraction.done =>
        \A s \in {Strip(RawOf(rawText))} :
            IF OpenAt(s) # {} /\ DepthZeroAt(s, Least(OpenAt(s))) # {}
            THEN /\ extraction.sub.found
                 /\ extraction.sub.sub =
                        SubSeq(s, Least(OpenAt(s)),
                               Least(DepthZeroAt(s, Least(OpenAt(s)))))
            ELSE /\ ~extraction.sub.found
                 /\ extraction.parsed = WholeOrEmpty(RawOf(rawText))
\* prose, then a nested pair of brackets
C21_Witness ==
    /\ extraction.done
    /\ extraction.sub.found
    /\ rawText[1] = Word("w")
    /\ Cardinality(OpenAt(extraction.sub.sub)) = 2
    /\ Len(extraction.sub.sub) < Len(rawText)

\* C22: push_persona changes last_sync and nothing else of the persona (id,
\* vitals, memory and version are as before); last_sync is None exactly
\* until the first push_persona call, and update_from_events never changes it.
PushSteps(t) ==
    \/ pc[t] = "idle" /\ pc'[t] = "push_await"
    \/ pc[t] = "push_await" /\ pc'[t] = "idle"
UpdateSteps(t) ==
    \/ pc[t] = "idle" /\ pc'[t] = "update_await"
    \/ pc[t] = "update_await" /\ pc'[t] = "idle"
PushesStarted == clock - 1
C22_PushChangesOnlyLastSync ==
    /\ [](state.last_sync = PyNone <=> PushesStarted = 0)
    /\ [][\A t \in Tasks :
            /\ PushSteps(t) => /\ state'.id = state.id
                               /\ state'.vitals = state.vitals
                               /\ state'.memory = state.memory
                               /\ state'.version = state.version
            /\ UpdateSteps(t) => state'.last_sync = state.last_sync]_vars
\* an update has changed the persona, then a push has stamped it and returned
C22_Witness ==
    \E t \in Tasks :
        /\ pc[t] = "idle"
        /\ retOp[t] = "push"
        /\ state.version = 1
        /\ state.vitals # InitState.vitals
        /\ state.last_sync # PyNone

\* C23: a push_persona call started after an update_from_events call has
\* returned snapshots what that update left: when an update returns, its
\* events, proposal and adjustments are the diagnostics (unless it returns an
\* error marker, which leaves them alone); from then on vitals, memory,
\* version and diagnostics change only when a later update returns, and the
\* version never goes down; and the snapshot a push builds holds the vitals,
\* memory, version and diagnostics of the moment it starts.
UpdateReturns(t) == pc[t] = "update_await" /\ pc'[t] = "idle"
PushStarts(t) == pc[t] = "idle" /\ pc'[t] = "push_await"
C23_PushSeesReturnedUpdates ==
    [][/\ state'.version >= state.version
       /\ \A t \in Tasks :
             UpdateReturns(t) =>
                \/ IsErrorMarker(ret'[t]) /\ last' = last
                \/ /\ last'.events = events[t]
                   /\ last'.ai_response = ret'[t]
                   /\ last'.adjustments = DictGet(ret'[t], "adjustments")
       /\ (\A t \in Tasks : ~UpdateReturns(t)) =>
             /\ Data(state') = Data(state)
             /\ last' = last
       /\ \A t \in Tasks :
             PushStarts(t) =>
                /\ Data(built'[t].state) = Data(state)
                /\ built'[t].memory = state.memory
                /\ built'[t].last_events = last.events
                /\ built'[t].last_adjustments = last.adjustments
                /\ built'[t].ai_response = last.ai_response]_vars
\* a push in flight whose snapshot holds a returned update's effects
C23_Witness ==
    \E t \in Tasks :
        /\ pc[t] = "push_await"
        /\ \E u \in Tasks : retOp[u] = "update" /\ pc[u] = "idle"
        /\ built[t].state.version = 1
        /\ built[t].state.vitals # InitState.vitals
        /\ built[t].last_events = <<"SLACK">>
        /\ built[t].last_adjustments # PyNone
        /\ built[t].ai_response = last.ai_response

\* C24: the lock is free whenever a remote call is outstanding and whenever a
\* call has returned, whatever its outcome; so while a call is suspended
\* another caller can start an update, a push or a read.
Suspended(t) == pc[t] \in {"update_await", "push_await"}
MayCall(t) == pc[t] = "idle" /\ InOrder(t) /\ calls < MaxCalls
C24_LockNeverHeldAcrossAwait ==
    /\ (\E t \in Tasks : Suspended(t)) => ~lock
    /\ (\E t \in Tasks : pc[t] = "idle" /\ retOp[t] \in {"update", "push"})
          => ~lock
    /\ \A t \in Tasks :
          MayCall(t) =>
             /\ \A n \in 1..Len(EventBatches) :
                   ENABLED UpdateFromEventsCall(t, EventBatches[n])
             /\ ENABLED PushPersonaCall(t)
             /\ ENABLED GetState(t)
\* a judgment and an assessment outstanding at once
C24_Witness ==
    \E t, u \in Tasks :
        /\ pc[t] = "update_await"
        /\ pc[u] = "push_await"
        /\ ~lock

\* C25: in a tick in which no sensor produced an event, update_from_events,
\* push_persona and react are not called and the persona (vitals, memory,
\* version, last_sync) stays as it was; the GitHub sensor contributes an event
\* exactly when the heuristic damage of the fetched commits is above 0.
TickStarts == orchPc = "gather" /\ tick' = tick + 1
HasGithubEvent(ev) == \E n \in 1..Len(ev) : ev[n] = "GITHUB"
C25_QuietTickCallsNothing ==
    /\ [](tick > 0 /\ tickEvents = <<>> =>
             /\ orchPc \in {"tick_end", "gather", "returned"}
             /\ updated = 0 /\ pushed = 0 /\ reacted = 0)
    /\ [][tickEvents' = <<>> =>
             /\ state'.vitals = state.vitals
             /\ state'.memory = state.memory
             /\ state'.version = state.version
             /\ state'.last_sync = state.last_sync
             /\ calls' = calls]_vars
    /\ [][TickStarts => (HasGithubEvent(tickEvents') <=> scan'.damage > 0)]_vars
\* a quiet second tick, with commits that score nothing, after a tick that
\* changed and pushed the persona
C25_Witness ==
    /\ tick = 2
    /\ orchPc = "tick_end"
    /\ tickEvents = <<>>
    /\ commits # <<>>
    /\ scan.damage = 0
    /\ state.version = 1
    /\ state.last_sync # PyNone

=============================================================================
